---- MODULE Spec2Model ----
(***************************************************************************)
(* State-machine model of awsjsondataset: the JsonDataset / AwsJsonDataset *)
(* classes of awsjsondataset/models.py (construction, queue_records in     *)
(* both modes, the SQS batching loop) and the service-limit helpers of     *)
(* awsjsondataset/utils.py.                                                *)
(*                                                                         *)
(* A record is modelled by its position in the dataset (id), the length of *)
(* its json.dumps text (len), whether it is a JSON object (isdict) and the *)
(* kind of values it holds (val): "json" for values json can write,        *)
(* "datetime" for a value it cannot, "str" for the text of such a value.   *)
(* Sizes in kilobytes are kept in hundredths of a kilobyte, the precision  *)
(* round(x, 2) leaves.                                                     *)
(***************************************************************************)
EXTENDS Integers, Sequences, FiniteSets, TLC

VARIABLES
    pc,           \* "new" | "ready" | "queue_loop" | "batch_loop" | "failed"
    exc,          \* exception raised by the last operation, "none" if none
    args,         \* the arguments the constructor was called with
    data,         \* self.data
    path,         \* self.path
    num_records,  \* self.num_records
    response,     \* self.response
    iter,         \* self._data: the iterator made at construction, or None
    sqs_queue,    \* self._sqs_queue is not None
    mode,         \* batch argument of the queue_records call in progress
    idx,          \* records of self.data consumed by the non-batch loop
    batch,        \* local batch
    batch_bytes,  \* local batch_bytes
    counter,      \* local counter
    errors,       \* local errors
    entries,      \* local entries; unbound until first assigned
    sent,         \* calls received by the transmission collaborator in this run
    runs,         \* queue_records calls started on this object
    vs,           \* application of validate_service / get_available_services_by_limit
    file,         \* the file written by save
    cache,        \* the cached properties _records_by_size_kb, _max_record_size_kb
    last,         \* the last operation called on the dataset
    srt           \* application of sort_records_by_size_bytes

vars == <<pc, exc, args, data, path, num_records, response, iter, sqs_queue,
          mode, idx, batch, batch_bytes, counter, errors, entries, sent, runs, vs,
          file, cache, last, srt>>

----------------------------------------------------------------------------
(* Bounds of the model *)

\* longest dataset of uniform small records
MaxTiny == 25
\* longest dataset of records of mixed sizes
MaxMixed == 3
\* failures the transmission collaborator reports per run
MaxFailures == 1
\* queue_records calls per dataset object
MaxRuns == 2

\* json.dumps lengths of the records used; every sum 49 + len, and every
\* 49 + (sum of len) + 2n, ends in 7 or 9, so round(x/1000, 2) never meets
\* a tie
LenSet == {8, 99998, 254998, 299998}
TinyLenOf == CHOOSE l \in LenSet : \A m \in LenSet : l <= m

----------------------------------------------------------------------------
(* Values *)

Rec(i, l, d) == [id |-> i, len |-> l, isdict |-> d, val |-> "json"]

\* the same record holding a value of kind v
WithValue(r, v) == [r EXCEPT !.val = v]

\* json.dumps(record) with the default encoder does not raise TypeError
Serializable(r) == r.val # "datetime"

RECURSIVE SumLen(_)
SumLen(s) == IF s = <<>> THEN 0 ELSE Head(s).len + SumLen(Tail(s))

\* sys.getsizeof of an ASCII str of n characters (CPython compact str header)
StrOverhead == 49
GetSizeOf(n) == StrOverhead + n

\* round(n / 1000, 2), in hundredths of a kilobyte
RoundKb(n) == (n + 5) \div 10

\* a number of kilobytes in hundredths of a kilobyte
Kb(n) == n * 100

\* len(json.dumps(record))
DumpsLenRecord(r) == r.len
\* len(json.dumps(list)): '[' + ', '.join(items) + ']'
DumpsLenList(s) == IF s = <<>> THEN 2 ELSE SumLen(s) + 2 * Len(s)

\* JsonDataset._get_record_size_kb applied to one record
GetRecordSizeKb(r) == RoundKb(GetSizeOf(DumpsLenRecord(r)))
\* JsonDataset._get_record_size_kb applied to the batch list (models.py:177)
GetRecordSizeKbOfList(s) == RoundKb(GetSizeOf(DumpsLenList(s)))

\* json.dumps(record) as handed to the collaborator: the text of record id,
\* of the given length
JsonDumps(r) == [text |-> r.id, length |-> r.len]

----------------------------------------------------------------------------
(* Service limits (the constants module imported at models.py:10 and        *)
(* utils.py:9-12)                                                           *)

\* constants.available_services, in registry order
available_services == <<"sqs", "sns", "kinesis_firehose">>

\* constants.service_size_limits_bytes
service_size_limits_bytes ==
    [sqs |-> [max_record_size_bytes |-> 256000,
              max_batch_size_bytes |-> 256000, max_batch_count |-> 10],
     sns |-> [max_record_size_bytes |-> 256000,
              max_batch_size_bytes |-> 256000, max_batch_count |-> 10],
     kinesis_firehose |-> [max_record_size_bytes |-> 1000000,
              max_batch_size_bytes |-> 4000000, max_batch_count |-> 500]]

\* constants.service_size_limits_kb, in hundredths of a kilobyte
service_size_limits_kb ==
    [k \in DOMAIN service_size_limits_bytes |->
        Kb(service_size_limits_bytes[k].max_record_size_bytes \div 1000)]

Range(s) == {s[i] : i \in DOMAIN s}

\* mutant: a service whose limit equals the size is kept
get_available_services_by_limit_le(max_record_size_bytes) ==
    SelectSeq(available_services,
              LAMBDA k : max_record_size_bytes
                           <= service_size_limits_bytes[k].max_record_size_bytes)

\* utils.get_available_services_by_limit
get_available_services_by_limit(max_record_size_bytes) ==
    SelectSeq(available_services,
              LAMBDA k : max_record_size_bytes
                           < service_size_limits_bytes[k].max_record_size_bytes)

\* utils.validate_service
validate_service(service, max_record_size_bytes) ==
    IF service \notin Range(available_services)
    THEN [raised |-> "ValueError", value |-> ""]
    ELSE IF service \notin Range(get_available_services_by_limit(max_record_size_bytes))
         THEN [raised |-> "ServiceRecordSizeLimitExceeded", value |-> ""]
         ELSE [raised |-> "none", value |-> service]

----------------------------------------------------------------------------
(* JsonDataset derived sizes *)

MaxOf(S) == CHOOSE x \in S : \A y \in S : y <= x

\* list.sort(key=...): a stable sort of (record, size) pairs by size;
\* x goes behind every pair whose size is not greater
RECURSIVE InsertBySize(_, _)
InsertBySize(x, s) ==
    IF s = <<>> THEN <<x>>
    ELSE IF Head(s)[2] <= x[2] THEN <<Head(s)>> \o InsertBySize(x, Tail(s))
         ELSE <<x>> \o s

RECURSIVE SortBySize(_)
SortBySize(s) ==
    IF s = <<>> THEN <<>>
    ELSE InsertBySize(s[Len(s)], SortBySize(SubSeq(s, 1, Len(s) - 1)))

Reverse(s) == [i \in 1..Len(s) |-> s[Len(s) + 1 - i]]

\* list.sort(key=..., reverse=r): CPython reverses the list, sorts it
\* stably and reverses the result
ListSort(s, r) == IF r THEN Reverse(SortBySize(Reverse(s))) ELSE SortBySize(s)

\* utils.get_record_size_bytes
get_record_size_bytes(r) == GetSizeOf(DumpsLenRecord(r))

\* mutant: descending order obtained by reversing the ascending result
sort_records_by_size_bytes_rev(d, ascending) ==
    LET pairs == [i \in DOMAIN d |-> <<d[i], get_record_size_bytes(d[i])>>]
    IN  IF ascending THEN SortBySize(pairs) ELSE Reverse(SortBySize(pairs))

\* utils.sort_records_by_size_bytes
sort_records_by_size_bytes(d, ascending) ==
    ListSort([i \in DOMAIN d |-> <<d[i], get_record_size_bytes(d[i])>>],
             ~ascending)

\* JsonDataset._records_by_size_kb computed from a record sequence
records_by_size_kb(recs) ==
    ListSort([i \in DOMAIN recs |-> <<recs[i], GetRecordSizeKb(recs[i])>>], FALSE)

\* JsonDataset._max_record_size_kb of a non-empty record sequence
max_record_size_kb(recs) == MaxOf({GetRecordSizeKb(recs[i]) : i \in DOMAIN recs})

\* AwsJsonDataset._available_services
AvailableServicesKb(maxkb) ==
    SelectSeq(available_services, LAMBDA k : maxkb < service_size_limits_kb[k])

----------------------------------------------------------------------------
(* The SQS batching limits written into _queue_records_batch *)

\* models.py:162  len(batch) < 10
SqsBatchCount == 10
\* models.py:162  batch_bytes < 256
SqsBatchKb == 256

\* models.py:165-170: the entries list built from a batch
Entries(b) == [i \in 1..Len(b) |->
                  [Id |-> ToString(i - 1), MessageBody |-> JsonDumps(b[i])]]

----------------------------------------------------------------------------
(* Inputs *)

\* n uniform small JSON objects
TinyData(n) == [i \in 1..n |-> Rec(i, TinyLenOf, TRUE)]

\* short datasets of JSON objects of every mix of sizes
MixedData ==
    UNION {{[i \in 1..n |-> Rec(i, f[i], TRUE)] : f \in [1..n -> LenSet]}
           : n \in 1..MaxMixed}

\* [{"a": 1}, {"b": 2}, 3]: the last element is not an object
NonObjectData == TinyData(2) \o <<Rec(3, 1, FALSE)>>

Datasets == {TinyData(n) : n \in 0..MaxTiny} \cup MixedData \cup {NonObjectData}

\* the data argument: None or a list
NoData == [given |-> FALSE, recs |-> <<>>]
DataArg(d) == [given |-> TRUE, recs |-> d]

\* the path argument: None, or a path to a file whose JSON top-level value
\* is a list (of recs) or is not
NoPath == [given |-> FALSE, isList |-> FALSE, recs |-> <<>>]
NotArrayFile == [given |-> TRUE, isList |-> FALSE, recs |-> <<>>]
ArrayFile(d) == [given |-> TRUE, isList |-> TRUE, recs |-> d]
Files == {NotArrayFile}
           \cup {ArrayFile(d) : d \in {<<>>, TinyData(2), TinyData(11), NonObjectData}}

\* constructor calls: any data with no path; no data, empty data or a small
\* dataset together with a path
CtorArgs ==
    {[data |-> DataArg(d), path |-> NoPath, url |-> u]
        : d \in Datasets, u \in BOOLEAN}
    \cup {[data |-> d, path |-> p, url |-> u]
        : d \in {NoData, DataArg(<<>>), DataArg(TinyData(2))},
          p \in Files \cup {NoPath}, u \in BOOLEAN}

\* responses of the transmission collaborator; RequestId tells responses apart
NoResponse == [HTTPStatusCode |-> 0, Failed |-> {}, RequestId |-> 0]
Response(code, failed, n) == [HTTPStatusCode |-> code, Failed |-> failed, RequestId |-> n]

IsFailure(r) == r.HTTPStatusCode # 200 \/ r.Failed # {}

NumFailures(calls) == Cardinality({i \in DOMAIN calls : IsFailure(calls[i].response)})

\* what send_message may answer to the next call of this run
SendMessageResponses ==
    {Response(200, {}, Len(sent) + 1)}
      \cup (IF NumFailures(sent) < MaxFailures
            THEN {Response(500, {}, Len(sent) + 1)} ELSE {})

\* what send_messages may answer: every entry accepted, or the first rejected
SendMessagesResponses ==
    {Response(200, {}, Len(sent) + 1)}
      \cup (IF NumFailures(sent) < MaxFailures
            THEN {Response(200, {"0"}, Len(sent) + 1)} ELSE {})

NoIter == [none |-> TRUE, src |-> <<>>, pos |-> 0]
Unbound == [bound |-> FALSE, val |-> <<>>]
Bound(e) == [bound |-> TRUE, val |-> e]
NoArgs == [data |-> NoData, path |-> NoPath, url |-> FALSE]
\* no file written yet; of is the record sequence the file was written from
NoFile == [present |-> FALSE, isList |-> FALSE, items |-> <<>>, of |-> <<>>]
\* neither cached property computed yet
NoCache == [sorted |-> Unbound, max |-> [bound |-> FALSE, val |-> 0]]
SrtIdle == [phase |-> "idle", data |-> <<>>, ascending |-> TRUE, result |-> <<>>]
VsIdle == [phase |-> "idle", service |-> "", size |-> 0,
           result |-> [raised |-> "none", value |-> ""], available |-> <<>>]

----------------------------------------------------------------------------
(* Initial state: no dataset object yet *)

InitObject ==
    /\ pc = "new"
    /\ exc = "none"
    /\ args = NoArgs
    /\ data = <<>>
    /\ path = NoPath
    /\ num_records = 0
    /\ response = NoResponse
    /\ iter = NoIter
    /\ sqs_queue = FALSE
    /\ mode = FALSE
    /\ idx = 0
    /\ batch = <<>>
    /\ batch_bytes = 0
    /\ counter = 0
    /\ errors = 0
    /\ entries = Unbound
    /\ sent = <<>>
    /\ runs = 0
    /\ file = NoFile
    /\ cache = NoCache
    /\ last = "none"

Init == InitObject /\ vs = VsIdle /\ srt = SrtIdle

locals == <<mode, idx, batch, batch_bytes, counter, errors, entries, sent, runs>>
dsvars == <<file, cache, last, srt>>
object == <<data, path, num_records, response, iter, sqs_queue>>

----------------------------------------------------------------------------
(* AwsJsonDataset(data, path, sqs_queue_url=url) *)

\* JsonDataset.__init__ then AwsJsonDataset.__init__ and _get_sqs
Construct(a) ==
    /\ pc = "new"
    /\ args' = a
    /\ LET doLoad  == (~a.data.given \/ a.data.recs = <<>>) /\ a.path.given
           loaded  == IF doLoad THEN DataArg(a.path.recs) ELSE a.data
           recs    == loaded.recs
       IN  IF doLoad /\ ~a.path.isList
           THEN \* _read_local: the top-level value is not a list
                /\ pc' = "failed" /\ exc' = "InvalidJsonDataset"
                /\ UNCHANGED <<object, cache>>
           ELSE IF ~loaded.given
           THEN \* len(None)
                /\ pc' = "failed" /\ exc' = "TypeError"
                /\ UNCHANGED <<object, cache>>
           ELSE IF a.url /\ \E i \in DOMAIN recs : ~Serializable(recs[i])
           THEN \* _records_by_size_kb: json.dumps(record)
                /\ pc' = "failed" /\ exc' = "TypeError"
                /\ UNCHANGED <<object, cache>>
           ELSE IF a.url /\ recs = <<>>
           THEN \* _max_record_size_kb: max([])
                /\ pc' = "failed" /\ exc' = "ValueError"
                /\ UNCHANGED <<object, cache>>
           ELSE /\ pc' = "ready" /\ exc' = "none"
                /\ data' = recs
                /\ path' = a.path
                /\ num_records' = Len(recs)
                /\ response' = NoResponse
                /\ iter' = IF recs = <<>> THEN NoIter
                           ELSE [none |-> FALSE, src |-> recs, pos |-> 0]
                /\ sqs_queue' = (a.url /\ "sqs" \in
                        Range(AvailableServicesKb(max_record_size_kb(recs))))
                \* _get_sqs reads _available_services only behind a url
                /\ cache' = IF a.url
                             THEN [sorted |-> Bound(records_by_size_kb(recs)),
                                   max |-> [bound |-> TRUE,
                                            val |-> max_record_size_kb(recs)]]
                             ELSE cache
    /\ last' = "construct"
    /\ UNCHANGED <<locals, vs, file, srt>>

----------------------------------------------------------------------------
(* queue_records(batch) *)

\* models.py:132-138 and 154-161: entry into the call, up to the loop
QueueRecords(b) ==
    /\ pc = "ready"
    /\ runs < MaxRuns
    /\ runs' = runs + 1
    /\ mode' = b
    /\ sent' = <<>>
    /\ counter' = 0
    /\ idx' = 0
    /\ IF b
       THEN /\ batch' = <<>>
            /\ batch_bytes' = 0
            /\ entries' = Unbound
            /\ UNCHANGED errors
            /\ IF iter.none
               THEN \* for record in None
                    pc' = "ready" /\ exc' = "TypeError"
               ELSE pc' = "batch_loop" /\ exc' = "none"
       ELSE /\ errors' = 0
            /\ pc' = "queue_loop" /\ exc' = "none"
            /\ UNCHANGED <<batch, batch_bytes, entries>>
    /\ last' = "queue_records"
    /\ UNCHANGED <<args, object, vs, file, cache, srt>>

\* models.py:140-149: one iteration of the non-batch loop
SendMessage(resp) ==
    /\ pc = "queue_loop"
    /\ idx < Len(data)
    /\ IF ~sqs_queue
       THEN \* None.send_message, after counter += 1
            /\ pc' = "ready" /\ exc' = "AttributeError"
            /\ counter' = counter + 1
            /\ UNCHANGED <<idx, errors, sent, response>>
       ELSE /\ sent' = Append(sent,
                    [op |-> "send_message",
                     entries |-> <<[Id |-> "", MessageBody |-> JsonDumps(data[idx + 1])]>>,
                     response |-> resp])
            /\ response' = resp
            /\ IF resp.HTTPStatusCode # 200
               THEN counter' = counter /\ errors' = errors + 1
               ELSE counter' = counter + 1 /\ errors' = errors
            /\ idx' = idx + 1
            /\ UNCHANGED <<pc, exc>>
    /\ UNCHANGED <<args, data, path, num_records, iter, sqs_queue,
                   mode, batch, batch_bytes, entries, runs, vs, dsvars>>

\* models.py:151: the loop is over, the call returns None
QueueReturn ==
    /\ pc = "queue_loop"
    /\ idx = Len(data)
    /\ pc' = "ready"
    /\ UNCHANGED <<exc, args, object, locals, vs, dsvars>>

\* models.py:161-177: one iteration of the batching loop
BatchStep(resp) ==
    /\ pc = "batch_loop"
    /\ iter.pos < Len(iter.src)
    /\ LET record == iter.src[iter.pos + 1]
       IN  /\ iter' = [iter EXCEPT !.pos = @ + 1]
           /\ IF batch_bytes < Kb(SqsBatchKb) /\ Len(batch) < SqsBatchCount
              THEN /\ batch' = Append(batch, record)
                   /\ batch_bytes' = GetRecordSizeKbOfList(batch')
                   /\ UNCHANGED <<pc, exc, entries, sent, response, counter>>
              ELSE /\ entries' = Bound(Entries(batch))
                   /\ IF ~sqs_queue
                      THEN \* None.send_messages
                           /\ pc' = "ready" /\ exc' = "AttributeError"
                           /\ UNCHANGED <<sent, response, counter, batch, batch_bytes>>
                      ELSE /\ sent' = Append(sent,
                                  [op |-> "send_messages",
                                   entries |-> entries'.val,
                                   response |-> resp])
                           /\ response' = resp
                           /\ counter' = counter + Len(batch)
                           /\ batch' = <<record>>
                           /\ batch_bytes' = GetRecordSizeKbOfList(batch')
                           /\ UNCHANGED <<pc, exc>>
    /\ UNCHANGED <<args, data, path, num_records, sqs_queue,
                   mode, idx, errors, runs, vs, dsvars>>

\* mutant: the reconciliation is made whether or not a batch remains
BatchFinal_reconcile(resp) ==
    /\ pc = "batch_loop"
    /\ iter.pos = Len(iter.src)
    /\ pc' = "ready"
    /\ IF Len(batch) > 0
       THEN IF ~sqs_queue
            THEN /\ exc' = "AttributeError"
                 /\ UNCHANGED <<sent, response, counter>>
            ELSE IF ~entries.bound
            THEN /\ exc' = "UnboundLocalError"
                 /\ UNCHANGED <<sent, response, counter>>
            ELSE /\ sent' = Append(sent,
                        [op |-> "send_messages",
                         entries |-> entries.val,
                         response |-> resp])
                 /\ response' = resp
                 /\ counter' = counter + Len(batch)
                 /\ exc' = IF counter' # num_records
                           THEN "MissingRecords" ELSE "none"
       ELSE /\ exc' = IF counter # num_records THEN "MissingRecords" ELSE "none"
            /\ UNCHANGED <<sent, response, counter>>
    /\ UNCHANGED <<args, data, path, num_records, iter, sqs_queue,
                   mode, idx, batch, batch_bytes, errors, entries, runs, vs, dsvars>>

\* models.py:179-186: after the loop
BatchFinal(resp) ==
    /\ pc = "batch_loop"
    /\ iter.pos = Len(iter.src)
    /\ pc' = "ready"
    /\ IF Len(batch) > 0
       THEN IF ~sqs_queue
            THEN \* None.send_messages
                 /\ exc' = "AttributeError"
                 /\ UNCHANGED <<sent, response, counter>>
            ELSE IF ~entries.bound
            THEN \* entries was never assigned
                 /\ exc' = "UnboundLocalError"
                 /\ UNCHANGED <<sent, response, counter>>
            ELSE /\ sent' = Append(sent,
                        [op |-> "send_messages",
                         entries |-> entries.val,
                         response |-> resp])
                 /\ response' = resp
                 /\ counter' = counter + Len(batch)
                 /\ exc' = IF counter' # num_records
                           THEN "MissingRecords" ELSE "none"
       ELSE UNCHANGED <<exc, sent, response, counter>>
    /\ UNCHANGED <<args, data, path, num_records, iter, sqs_queue,
                   mode, idx, batch, batch_bytes, errors, entries, runs, vs, dsvars>>

----------------------------------------------------------------------------

Next ==
    \/ \E a \in CtorArgs : Construct(a)
    \/ \E b \in BOOLEAN : QueueRecords(b)
    \/ \E r \in SendMessageResponses : SendMessage(r)
    \/ QueueReturn
    \/ \E r \in SendMessagesResponses : BatchStep(r)
    \/ \E r \in SendMessagesResponses : BatchFinal(r)

Spec == Init /\ [][Next]_vars

----------------------------------------------------------------------------
(* load, save and the cached properties of JsonDataset *)

\* json.dump(..., cls=DatetimeEncoder) of one element: the text of record
\* id; a value json cannot write is written as the string str(obj)
EncodeRecord(r) ==
    [text |-> r.id, length |-> r.len, obj |-> r.isdict,
     quoted |-> r.val \in {"datetime", "str"}]

\* mutant: every value is read back as a string
DecodeRecord_str(t) == WithValue(Rec(t.text, t.length, t.obj), "str")

\* json.load of one element: a quoted value is read back as a string
DecodeRecord(t) ==
    WithValue(Rec(t.text, t.length, t.obj), IF t.quoted THEN "str" ELSE "json")

\* JsonDataset._write_local: the file holds a JSON array of the elements
WriteLocal(recs) ==
    [present |-> TRUE, isList |-> TRUE,
     items |-> [i \in DOMAIN recs |-> EncodeRecord(recs[i])], of |-> recs]

\* JsonDataset._read_local of a file written by _write_local
ReadLocal(f) == [i \in DOMAIN f.items |-> DecodeRecord(f.items[i])]

\* load(path) on a constructed dataset, path naming a file that was there
Load(p) ==
    /\ pc = "ready"
    /\ last' = "load"
    /\ IF ~p.isList
       THEN exc' = "InvalidJsonDataset" /\ data' = data
       ELSE exc' = "none" /\ data' = p.recs
    /\ UNCHANGED <<pc, args, path, num_records, response, iter, sqs_queue,
                   locals, vs, file, cache, srt>>

\* load(path) of the file save wrote
LoadSaved ==
    /\ pc = "ready"
    /\ file.present
    /\ last' = "load_saved"
    /\ exc' = "none"
    /\ data' = ReadLocal(file)
    /\ UNCHANGED <<pc, args, path, num_records, response, iter, sqs_queue,
                   locals, vs, file, cache, srt>>

\* save(path)
Save ==
    /\ pc = "ready"
    /\ last' = "save"
    /\ exc' = "none"
    /\ file' = WriteLocal(data)
    /\ UNCHANGED <<pc, args, object, locals, vs, cache, srt>>

\* the cached property _records_by_size_kb after it is read
SortedAfterRead ==
    IF cache.sorted.bound THEN cache.sorted
    ELSE Bound(records_by_size_kb(data))

\* read of self._records_by_size_kb
ReadRecordsBySize ==
    /\ pc = "ready"
    /\ last' = "records_by_size"
    /\ IF ~cache.sorted.bound /\ \E i \in DOMAIN data : ~Serializable(data[i])
       THEN exc' = "TypeError" /\ cache' = cache
       ELSE exc' = "none" /\ cache' = [cache EXCEPT !.sorted = SortedAfterRead]
    /\ UNCHANGED <<pc, args, object, locals, vs, file, srt>>

\* read of self._max_record_size_kb
ReadMaxRecordSize ==
    /\ pc = "ready"
    /\ last' = "max_record_size"
    /\ IF cache.max.bound
       THEN exc' = "none" /\ cache' = cache
       ELSE IF ~cache.sorted.bound /\ \E i \in DOMAIN data : ~Serializable(data[i])
       THEN exc' = "TypeError" /\ cache' = cache
       ELSE IF SortedAfterRead.val = <<>>
       THEN \* max([])
            exc' = "ValueError" /\ cache' = [cache EXCEPT !.sorted = SortedAfterRead]
       ELSE /\ exc' = "none"
            /\ cache' = [sorted |-> SortedAfterRead,
                         max |-> [bound |-> TRUE,
                                  val |-> MaxOf({SortedAfterRead.val[i][2]
                                                   : i \in DOMAIN SortedAfterRead.val})]]
    /\ UNCHANGED <<pc, args, object, locals, vs, file, srt>>

\* a record holding a datetime, written by DatetimeEncoder in 28 characters
DatetimeData == <<Rec(1, TinyLenOf, TRUE), WithValue(Rec(2, 28, TRUE), "datetime")>>

\* the datasets the persistence operations are exercised on
DatasetInputs ==
    {TinyData(n) : n \in 0..2}
      \cup {<<Rec(1, a, TRUE), Rec(2, b, TRUE)>> : a, b \in LenSet}
      \cup {NonObjectData, DatetimeData}

DatasetCtorArgs ==
    {[data |-> DataArg(d), path |-> NoPath, url |-> u]
        : d \in DatasetInputs, u \in BOOLEAN}
    \cup {[data |-> NoData, path |-> p, url |-> FALSE] : p \in Files}

NextDataset ==
    \/ \E a \in DatasetCtorArgs : Construct(a)
    \/ \E p \in Files : Load(p)
    \/ LoadSaved
    \/ Save
    \/ ReadRecordsBySize
    \/ ReadMaxRecordSize

SpecDataset == Init /\ [][NextDataset]_vars

----------------------------------------------------------------------------
(* The service-limit functions applied to drawn inputs *)

\* the per-record limits of the registry
RecordLimits ==
    {service_size_limits_bytes[k].max_record_size_bytes
        : k \in DOMAIN service_size_limits_bytes}

\* sizes at, just under and just over every limit, and others far from them
SizeInputs ==
    UNION {{l - 1, l, l + 1} : l \in RecordLimits}
      \cup {GetSizeOf(l) : l \in LenSet} \cup {5250058}

ServiceInputs == Range(available_services) \cup {"unknown_service", "invalid_service"}

InitValidate ==
    /\ InitObject
    /\ srt = SrtIdle
    /\ vs \in {[VsIdle EXCEPT !.phase = "input", !.service = n, !.size = z]
                 : n \in ServiceInputs, z \in SizeInputs}

\* validate_service(service, max_record_size_bytes)
ApplyValidateService ==
    /\ vs.phase = "input"
    /\ vs' = [vs EXCEPT !.phase = "validated",
                        !.result = validate_service(vs.service, vs.size)]
    /\ UNCHANGED <<pc, exc, args, object, locals, dsvars>>

\* get_available_services_by_limit(max_record_size_bytes)
ApplyAvailableServices ==
    /\ vs.phase = "input"
    /\ vs' = [vs EXCEPT !.phase = "listed",
                        !.available = get_available_services_by_limit(vs.size)]
    /\ UNCHANGED <<pc, exc, args, object, locals, dsvars>>

NextValidate == ApplyValidateService \/ ApplyAvailableServices

SpecValidate == InitValidate /\ [][NextValidate]_vars

----------------------------------------------------------------------------
(* sort_records_by_size_bytes as a pure function *)

\* longest dataset handed to the sort
MaxSort == 3
\* json.dumps lengths of the records handed to the sort
SortLens == {8, 12, 20}

\* datasets of up to MaxSort records, record i at position i
SortInputs ==
    UNION {{[i \in 1..n |-> Rec(i, l[i], TRUE)] : l \in [1..n -> SortLens]}
              : n \in 0..MaxSort}

InitSort ==
    /\ InitObject
    /\ vs = VsIdle
    /\ srt \in {[SrtIdle EXCEPT !.phase = "input", !.data = d, !.ascending = a]
                  : d \in SortInputs, a \in BOOLEAN}

\* sort_records_by_size_bytes(data, ascending)
ApplySort ==
    /\ srt.phase = "input"
    /\ srt' = [srt EXCEPT !.phase = "sorted",
                          !.result = sort_records_by_size_bytes(srt.data,
                                                                srt.ascending)]
    /\ UNCHANGED <<pc, exc, args, object, locals, vs, file, cache, last>>

NextSort == ApplySort

SpecSort == InitSort /\ [][NextSort]_vars

----------------------------------------------------------------------------
(* Properties *)

RECURSIVE Flatten(_)
Flatten(ss) == IF ss = <<>> THEN <<>> ELSE Head(ss) \o Flatten(Tail(ss))

\* the message bodies the collaborator received in this run, in call order
SentBodies == Flatten([i \in DOMAIN sent |->
                 [j \in DOMAIN sent[i].entries |-> sent[i].entries[j].MessageBody]])

\* the serializations of the dataset's records, in dataset order
DataBodies == [i \in DOMAIN data |-> JsonDumps(data[i])]

\* number of entries of each call, in call order
SentSizes == [i \in DOMAIN sent |-> Len(sent[i].entries)]

\* utils.get_record_size_bytes of the record behind a message body
BodySizeBytes(body) == GetSizeOf(body.length)

RECURSIVE SumBodySizes(_)
SumBodySizes(es) ==
    IF es = <<>> THEN 0
    ELSE BodySizeBytes(Head(es).MessageBody) + SumBodySizes(Tail(es))

\* every element of the dataset is a JSON object
AllObjects(recs) == \A i \in DOMAIN recs : recs[i].isdict

\* a queue_records call has returned or raised
RunOver == pc = "ready" /\ runs >= 1
\* the first batching call on a dataset that passed the gate returned normally
FirstBatchRunDone ==
    RunOver /\ runs = 1 /\ mode /\ exc = "none" /\ sqs_queue /\ AllObjects(data)

\* C1: when a batching run over a valid dataset has returned, the entries
\* handed to the collaborator, concatenated in dispatch order, are exactly
\* the dataset's records in their original order.
C1_Partition == FirstBatchRunDone => SentBodies = DataBodies

\* C2: every batch handed over by the batcher is non-empty, holds at most
\* max_batch_count records and at most max_batch_size_bytes bytes, unless it
\* is one record alone.
C2_BatchLimits ==
    \A i \in DOMAIN sent :
        sent[i].op = "send_messages" =>
            /\ Len(sent[i].entries) >= 1
            /\ Len(sent[i].entries) <= service_size_limits_bytes.sqs.max_batch_count
            /\ \/ SumBodySizes(sent[i].entries)
                      <= service_size_limits_bytes.sqs.max_batch_size_bytes
               \/ Len(sent[i].entries) = 1

\* sizes of the batches of n records under a count limit of c alone
CountBatches(n, c) ==
    [i \in 1..((n + c - 1) \div c) |-> IF i * c <= n THEN c ELSE n - (i - 1) * c]

\* C3: n records far below the byte limit are dispatched as ceil(n/10)
\* batches, each of 10 records except the last, which holds the remainder
\* (25 records: 10, 10, 5).
C3_CountBatching ==
    (FirstBatchRunDone /\ data = TinyData(Len(data)))
        => SentSizes = CountBatches(Len(data), SqsBatchCount)

\* C4: once a run has finished, every failure the collaborator reported
\* during it is present in the caller-visible result (self.response; the
\* call itself returns None).
C4_FailureSurfaced ==
    (RunOver /\ exc = "none")
        => \A i \in DOMAIN sent :
              IsFailure(sent[i].response) => response = sent[i].response

\* C5: within one run no record is handed to the collaborator twice, and
\* when the run has returned every record was handed over, whatever
\* failures were reported on the way.
C5_OnceAndAll ==
    LET bodies == SentBodies
    IN  /\ Cardinality(Range(bodies)) = Len(bodies)
        /\ (RunOver /\ runs = 1 /\ exc = "none" /\ sqs_queue)
              => Range(DataBodies) \subseteq Range(bodies)

\* C6: a batching pass ends with MissingRecords exactly when the number of
\* records it emitted differs from num_records.
C6_Reconciliation ==
    (RunOver /\ mode /\ sqs_queue /\ exc \in {"none", "MissingRecords"})
        => (exc = "MissingRecords" <=> counter # num_records)

GatePassed ==
    /\ data # <<>>
    /\ "sqs" \in Range(AvailableServicesKb(max_record_size_kb(data)))

\* C8: no record is put in a batch and no call reaches the collaborator
\* unless the check of the largest record against the service's per-record
\* limit has passed.
C8_GateFirst ==
    (args.url /\ (batch # <<>> \/ sent # <<>>)) => GatePassed

\* C9: constructing with both data and path supplied raises TypeError and
\* yields no dataset.
C9_BothSourcesRejected ==
    (pc # "new" /\ args.data.given /\ args.data.recs # <<>> /\ args.path.given)
        => (pc = "failed" /\ exc = "TypeError")

\* the source a construction reads is not an array of objects
SourceInvalid(a) ==
    \/ a.data.given /\ ~AllObjects(a.data.recs)
    \/ /\ ~a.data.given \/ a.data.recs = <<>>
       /\ a.path.given
       /\ ~a.path.isList \/ ~AllObjects(a.path.recs)

\* C10: construction from a source that is not an array of objects fails
\* with InvalidJsonDataset and yields no dataset.
C10_InvalidSourceRejected ==
    (pc # "new" /\ SourceInvalid(args))
        => (pc = "failed" /\ exc = "InvalidJsonDataset")

\* the number of records the constructor was given: those of the file when
\* it loaded one, those of data otherwise
ConstructedLen ==
    IF (~args.data.given \/ args.data.recs = <<>>) /\ args.path.given
    THEN Len(args.path.recs) ELSE Len(args.data.recs)

\* C11: in every state of a constructed dataset num_records is the length
\* of the record sequence and is the value construction gave it.
C11_NumRecordsIsLength ==
    pc \notin {"new", "failed"}
        => (num_records = Len(data) /\ num_records = ConstructedLen)

\* C12: get_available_services_by_limit returns exactly the registry's
\* services whose per-record limit is strictly greater than the size: a
\* service whose limit equals the size is left out.
C12_AvailableStrict ==
    vs.phase = "listed" =>
        /\ Range(vs.available) \subseteq DOMAIN service_size_limits_bytes
        /\ \A k \in DOMAIN service_size_limits_bytes :
              k \in Range(vs.available)
                 <=> service_size_limits_bytes[k].max_record_size_bytes > vs.size

\* the size equals the sqs limit: sqs is left out, the larger limit is kept
C12_Witness ==
    /\ vs.phase = "listed"
    /\ vs.size = service_size_limits_bytes.sqs.max_record_size_bytes
    /\ "sqs" \notin Range(vs.available)
    /\ "kinesis_firehose" \in Range(vs.available)

\* the bijections of 1..n
Bijections(n) ==
    {p \in [1..n -> 1..n] : \A i, j \in 1..n : i # j => p[i] # p[j]}

\* C13: sort_records_by_size_bytes returns the (record, size) pairs of a
\* permutation of the input, ordered by size in the requested direction, and
\* records of equal size keep their input order, for ascending and for
\* descending order alike.
C13_SortPermutationStable ==
    srt.phase = "sorted" =>
        LET n == Len(srt.data)
            r == srt.result
        IN  /\ Len(r) = n
            /\ \E p \in Bijections(n) :
                 /\ \A i \in 1..n :
                      r[i] = <<srt.data[p[i]], get_record_size_bytes(srt.data[p[i]])>>
                 /\ \A i, j \in 1..n : i < j =>
                      /\ IF srt.ascending THEN r[i][2] <= r[j][2]
                                          ELSE r[i][2] >= r[j][2]
                      /\ r[i][2] = r[j][2] => p[i] < p[j]

\* a descending sort that moved a record and kept two equal sizes in order
C13_Witness ==
    /\ srt.phase = "sorted"
    /\ ~srt.ascending
    /\ Len(srt.result) = 3
    /\ srt.result[1][2] > srt.result[2][2]
    /\ srt.result[2][2] = srt.result[3][2]
    /\ srt.result[1][1] = srt.data[3]
    /\ srt.result[2][1] = srt.data[1]

RECURSIVE SumSizeBytes(_)
SumSizeBytes(s) ==
    IF s = <<>> THEN 0 ELSE get_record_size_bytes(Head(s)) + SumSizeBytes(Tail(s))

\* the record fits the batch under the greedy rule measured after inclusion
FitsAfterInclusion(b, record) ==
    /\ Len(b) + 1 <= service_size_limits_bytes.sqs.max_batch_count
    /\ SumSizeBytes(b) + get_record_size_bytes(record)
          <= service_size_limits_bytes.sqs.max_batch_size_bytes

\* C15: each iteration of the batching loop appends the record to the
\* current batch exactly when the batch with the record stays within
\* max_batch_count and max_batch_size_bytes, and otherwise starts a new batch
\* holding just that record.
C15_GreedyRule ==
    [][(pc = "batch_loop" /\ iter.pos < Len(iter.src) /\ sqs_queue) =>
          LET record == iter.src[iter.pos + 1]
          IN  batch' = IF FitsAfterInclusion(batch, record)
                       THEN Append(batch, record)
                       ELSE <<record>>]_vars

\* C16: every transmission call of a batching run receives the entries made
\* from the batch being closed by that call, and the call after the loop is
\* made whenever the remaining batch is non-empty, also when no batch was
\* closed before.
C16_EntriesFromBatch ==
    [][(pc = "batch_loop" /\ sqs_queue) =>
          /\ Len(sent') > Len(sent)
                => sent'[Len(sent')].entries = Entries(batch)
          /\ (iter.pos = Len(iter.src) /\ batch # <<>>)
                => Len(sent') > Len(sent)]_vars

RECURSIVE SumSizeKb(_)
SumSizeKb(s) ==
    IF s = <<>> THEN 0 ELSE GetRecordSizeKb(Head(s)) + SumSizeKb(Tail(s))

\* C17: throughout a batching pass batch_bytes is the sum of the individual
\* sizes of the records in the current batch, in the unit of the limit it
\* is compared against.
C17_AccumulatorIsSum ==
    (pc = "batch_loop" /\ mode) => batch_bytes = SumSizeKb(batch)

\* records of one transmission call the collaborator reported as accepted
ConfirmedOf(call) ==
    IF call.response.HTTPStatusCode # 200 THEN 0
    ELSE Len(call.entries) - Cardinality(call.response.Failed)

RECURSIVE Confirmed(_)
Confirmed(calls) ==
    IF calls = <<>> THEN 0 ELSE ConfirmedOf(Head(calls)) + Confirmed(Tail(calls))

\* C18: when a run in either mode has ended, the counter is the number of
\* records the collaborator reported as accepted, and during a non-batch run
\* counter + errors is the number of records processed so far.
C18_CounterConfirmed ==
    /\ (RunOver /\ sqs_queue /\ exc \in {"none", "MissingRecords"})
          => counter = Confirmed(sent)
    /\ (pc = "queue_loop" /\ ~mode) => counter + errors = idx

\* the non-batch half of C18 alone
C18_NonBatch ==
    /\ (RunOver /\ sqs_queue /\ ~mode /\ exc = "none") => counter = Confirmed(sent)
    /\ (pc = "queue_loop" /\ ~mode) => counter + errors = idx

\* C19: in every state of a constructed dataset a memoized sorted view and
\* a memoized maximum equal what a fresh computation from the current
\* record sequence gives.
C19_MemoizationSafe ==
    pc = "ready" =>
        /\ cache.sorted.bound => cache.sorted.val = records_by_size_kb(data)
        /\ cache.max.bound =>
              (data # <<>> /\ cache.max.val = max_record_size_kb(data))

\* C20: a queue_records(batch=True) call made after an earlier batching call
\* on the same object finds the record iterator consumed, so it makes no
\* transmission call, leaves the stored response as it was and raises no
\* MissingRecords, although it emitted no record.
C20_BatchSingleUse ==
    [][/\ (pc = "ready" /\ runs >= 1 /\ mode /\ sqs_queue /\ pc' = "batch_loop")
             => (iter'.pos = Len(iter'.src) /\ batch' = <<>> /\ sent' = <<>>)
       /\ (pc = "batch_loop" /\ sqs_queue /\ batch = <<>>
              /\ iter.pos = Len(iter.src))
             => /\ pc' = "ready"
                /\ sent' = <<>>
                /\ response' = response
                /\ counter' = 0
                /\ exc' \notin {"MissingRecords", "UnboundLocalError"}]_vars

\* a second batching call has returned on a dataset of several records whose
\* first batching call reached the collaborator
C20_Witness ==
    /\ pc = "ready"
    /\ runs = 2
    /\ mode
    /\ sqs_queue
    /\ exc = "none"
    /\ num_records > 0
    /\ iter.pos = num_records
    /\ sent = <<>>
    /\ counter = 0
    /\ response # NoResponse

====
